---- MODULE Spec2Model ----
(***************************************************************************)
(* AppEncOpenCV: a still image, uploaded and colour-converted on the GPU,  *)
(* is submitted last_frame times to an NVENC session and the encoded       *)
(* packets are written to a file; one flush drains the encoder.            *)
(*                                                                         *)
(* The model follows AppEncOpenCV.cpp: ParseCommandLine (one action per    *)
(* branch of its for loop), ShowHelpAndExit / ShowEncoderCapability, main  *)
(* (one action per library call) and EncodeCuda (one action per call of    *)
(* its loop body).  Strings are tuples of one-character strings, so that   *)
(* argv[i][0], _stricmp, sscanf and atoi are computed, not assumed.        *)
(***************************************************************************)
EXTENDS Integers, Sequences, FiniteSets, TLC

(***************************************************************************)
(* Bounds of the model.                                                    *)
(***************************************************************************)
\* longest command line (tokens after argv[0]) of the parser specification
MaxArgs == 3
\* most GPUs cuDeviceGetCount reports
MaxGpus == 1
\* most frames the encoder holds back before it must return a packet
MaxDelay == 2

(***************************************************************************)
(* Characters and C string functions.                                      *)
(***************************************************************************)
DigitChars == <<"0", "1", "2", "3", "4", "5", "6", "7", "8", "9">>

UpperChars == <<"A", "B", "C", "D", "E", "F", "G", "H", "I", "J", "K", "L", "M",
                "N", "O", "P", "Q", "R", "S", "T", "U", "V", "W", "X", "Y", "Z">>

LowerChars == <<"a", "b", "c", "d", "e", "f", "g", "h", "i", "j", "k", "l", "m",
                "n", "o", "p", "q", "r", "s", "t", "u", "v", "w", "x", "y", "z">>

IsDigit(c) == \E k \in 1..10 : DigitChars[k] = c

DigitVal(c) == (CHOOSE k \in 1..10 : DigitChars[k] = c) - 1

ToLower(c) ==
    IF \E k \in 1..26 : UpperChars[k] = c
    THEN LowerChars[CHOOSE k \in 1..26 : UpperChars[k] = c]
    ELSE c

\* _stricmp(a, b) == 0
StrIEq(a, b) ==
    /\ Len(a) = Len(b)
    /\ \A k \in 1..Len(a) : ToLower(a[k]) = ToLower(b[k])

\* the run of decimal digits of s that starts at position p: [val, next]
RECURSIVE ScanDigits(_, _, _)
ScanDigits(s, p, acc) ==
    IF p <= Len(s) /\ IsDigit(s[p])
    THEN ScanDigits(s, p + 1, acc * 10 + DigitVal(s[p]))
    ELSE [val |-> acc, next |-> p]

\* one %d conversion at position p: an optional sign, then at least one digit
ScanInt(s, p) ==
    LET signed == p <= Len(s) /\ s[p] \in {"-", "+"}
        q      == IF signed THEN p + 1 ELSE p
        d      == ScanDigits(s, q, 0)
    IN  IF d.next = q
        THEN [ok |-> FALSE, val |-> 0, next |-> p]
        ELSE [ok |-> TRUE,
              val |-> IF signed /\ s[p] = "-" THEN 0 - d.val ELSE d.val,
              next |-> d.next]

\* sscanf(s, "%dx%d", &w, &h): the number of conversions made and the
\* values stored; a conversion that fails leaves its variable as it was
Sscanf_dxd(s, w, h) ==
    LET a == ScanInt(s, 1)
    IN  IF ~a.ok THEN [n |-> 0, w |-> w, h |-> h]
        ELSE IF ~(a.next <= Len(s) /\ s[a.next] = "x")
             THEN [n |-> 1, w |-> a.val, h |-> h]
             ELSE LET b == ScanInt(s, a.next + 1)
                  IN  IF b.ok THEN [n |-> 2, w |-> a.val, h |-> b.val]
                      ELSE [n |-> 1, w |-> a.val, h |-> h]

\* atoi(s): the leading integer of s, 0 when there is none
Atoi(s) == ScanInt(s, 1).val

(***************************************************************************)
(* Command-line tokens of the model.                                       *)
(***************************************************************************)
Opt_h == <<"-", "h">>
Opt_i == <<"-", "i">>
Opt_o == <<"-", "o">>
Opt_s == <<"-", "s">>
Opt_if == <<"-", "i", "f">>
Opt_gpu == <<"-", "g", "p", "u">>
Opt_cuStreamType == <<"-", "c", "u", "S", "t", "r", "e", "a", "m", "T", "y", "p", "e">>

\* the same flag in another case, an encoder option, and values
Tok_I == <<"-", "I">>
Tok_fps == <<"-", "f", "p", "s">>
Tok_2x4 == <<"2", "x", "4">>
Tok_2x4x == <<"2", "x", "4", "x">>
Tok_nv12 == <<"n", "v", "1", "2">>
Tok_1 == <<"1">>

Tokens ==
    {Opt_h, Opt_i, Opt_o, Opt_s, Opt_if, Opt_gpu, Opt_cuStreamType,
     Tok_I, Tok_fps, Tok_2x4, Tok_2x4x, Tok_nv12, Tok_1}

\* vszFileFormatName and aFormat
vszFileFormatName ==
    << <<"i", "y", "u", "v">>, <<"n", "v", "1", "2">>, <<"y", "v", "1", "2">>,
       <<"y", "u", "v", "4", "4", "4">>, <<"p", "0", "1", "0">>,
       <<"y", "u", "v", "4", "4", "4", "p", "1", "6">>, <<"b", "g", "r", "a">>,
       <<"b", "g", "r", "a", "1", "0">>, <<"a", "y", "u", "v">>,
       <<"a", "b", "g", "r">>, <<"a", "b", "g", "r", "1", "0">> >>

aFormat ==
    <<"IYUV", "NV12", "YV12", "YUV444", "YUV420_10BIT", "YUV444_10BIT",
      "ARGB", "ARGB10", "AYUV", "ABGR", "ABGR10">>

\* std::find over vszFileFormatName: the index found, 0 for end()
FindFormat(name) ==
    IF \E k \in 1..Len(vszFileFormatName) : vszFileFormatName[k] = name
    THEN CHOOSE k \in 1..Len(vszFileFormatName) :
            /\ vszFileFormatName[k] = name
            /\ \A j \in 1..(k - 1) : vszFileFormatName[j] /= name
    ELSE 0

(***************************************************************************)
(* State.                                                                  *)
(***************************************************************************)
VARIABLES
    \* ParseCommandLine
    argv, i, oss, szInFilePath, szOutFilePath, nWidth, nHeight, eFormat,
    iGpu, cuStreamType, encodeCLIOptions,
    \* the W and H of the last well-formed -s, <<>> when there was none
    sFlag,
    \* control: the next statement, the exit status (-1 while running), and
    \* the failure that ended the run ("none" while there is none)
    pc, exitCode, failure,
    \* main
    srcImgHost, srcImgDevice, nGpu, iCap, cuContext, nCtxCreate, fpOut,
    outTouched, outFile,
    \* EncodeCuda and the encoder session
    pEnc, pending, slot, fi, vPacket, nFrame,
    \* history of the calls made to the encoder
    emitted, calls, submittedImgs

parseVars ==
    <<argv, i, oss, szInFilePath, szOutFilePath, nWidth, nHeight, eFormat,
      iGpu, cuStreamType, encodeCLIOptions, sFlag>>

mainVars ==
    <<srcImgHost, srcImgDevice, nGpu, iCap, cuContext, nCtxCreate, fpOut,
      outTouched, outFile>>

encVars == <<pEnc, pending, slot, fi, vPacket, nFrame, emitted, calls, submittedImgs>>

vars == <<parseVars, pc, exitCode, failure, mainVars, encVars>>

argc == Len(argv) + 1

NoImage == [cols |-> 0, rows |-> 0, fmt |-> "empty"]

NoEncoder == [state |-> "none", w |-> 0, h |-> 0, fmt |-> "none",
              initFmt |-> "none", param |-> <<>>]

\* the state of main before ParseCommandLine is called, for command line a
InitWith(a) ==
    /\ argv = a
    /\ i = 1
    /\ oss = <<>>
    /\ szInFilePath = <<>>
    /\ szOutFilePath = <<>>
    /\ nWidth = 0
    /\ nHeight = 0
    /\ eFormat = "IYUV"
    /\ iGpu = 0
    /\ cuStreamType = -1
    /\ encodeCLIOptions = <<>>
    /\ sFlag = <<>>
    /\ pc = "parse"
    /\ exitCode = -1
    /\ failure = "none"
    /\ srcImgHost = NoImage
    /\ srcImgDevice = NoImage
    /\ nGpu = 0
    /\ iCap = 0
    /\ cuContext = "null"
    /\ nCtxCreate = 0
    /\ fpOut = "unopened"
    /\ outTouched = FALSE
    /\ outFile = <<>>
    /\ pEnc = NoEncoder
    /\ pending = <<>>
    /\ slot = "none"
    /\ fi = 0
    /\ vPacket = <<>>
    /\ nFrame = 0
    /\ emitted = <<>>
    /\ calls = [get |-> 0, copy |-> 0, encode |-> 0, flush |-> 0, destroy |-> 0]
    /\ submittedImgs = {}

(***************************************************************************)
(* ShowHelpAndExit(szBadOption) with a bad option: throws                  *)
(* std::invalid_argument, which main catches.                              *)
(***************************************************************************)
ThrowBadOption ==
    /\ pc' = "catch"
    /\ failure' = "argument"
    /\ UNCHANGED exitCode

\* a faulty variant of OssAppend: the separating space is left out
OssAppend_NoSpace(s, tok) == s \o tok

\* oss << tok << " "
OssAppend(s, tok) == s \o tok \o <<" ">>

\* the loop of lines 238-241: the tokens after position p that do not start
\* with '-' are appended; [oss, i] when it ends
RECURSIVE AppendValues(_, _, _)
AppendValues(a, p, s) ==
    IF p + 1 < Len(a) + 1 /\ (Len(a[p + 1]) = 0 \/ a[p + 1][1] /= "-")
    THEN AppendValues(a, p + 1, OssAppend(s, a[p + 1]))
    ELSE [oss |-> s, i |-> p]

\* argv[i] is flag f (a loop iteration that reaches the test of f)
AtFlag(f) ==
    /\ pc = "parse"
    /\ i < argc
    /\ StrIEq(argv[i], f)

\* -h: ShowHelpAndExit() prints the help and calls ShowEncoderCapability
ParseHelp ==
    /\ AtFlag(Opt_h)
    /\ pc' = "showCaps"
    /\ UNCHANGED <<parseVars, exitCode, failure, mainVars, encVars>>

ParseInput ==
    /\ AtFlag(Opt_i)
    /\ IF i + 1 = argc
       THEN ThrowBadOption /\ i' = i + 1 /\ UNCHANGED szInFilePath
       ELSE /\ szInFilePath' = argv[i + 1]
            /\ i' = i + 2
            /\ UNCHANGED <<pc, exitCode, failure>>
    /\ UNCHANGED <<argv, oss, szOutFilePath, nWidth, nHeight, eFormat, iGpu,
                   cuStreamType, encodeCLIOptions, sFlag, mainVars, encVars>>

ParseOutput ==
    /\ AtFlag(Opt_o)
    /\ IF i + 1 = argc
       THEN ThrowBadOption /\ i' = i + 1 /\ UNCHANGED szOutFilePath
       ELSE /\ szOutFilePath' = argv[i + 1]
            /\ i' = i + 2
            /\ UNCHANGED <<pc, exitCode, failure>>
    /\ UNCHANGED <<argv, oss, szInFilePath, nWidth, nHeight, eFormat, iGpu,
                   cuStreamType, encodeCLIOptions, sFlag, mainVars, encVars>>

ParseSize ==
    /\ AtFlag(Opt_s)
    /\ IF i + 1 = argc
       THEN ThrowBadOption /\ i' = i + 1 /\ UNCHANGED <<nWidth, nHeight, sFlag>>
       ELSE LET r == Sscanf_dxd(argv[i + 1], nWidth, nHeight)
            IN  /\ nWidth' = r.w
                /\ nHeight' = r.h
                /\ IF r.n /= 2
                   THEN ThrowBadOption /\ i' = i + 1 /\ UNCHANGED sFlag
                   ELSE /\ sFlag' = <<r.w, r.h>>
                        /\ i' = i + 2
                        /\ UNCHANGED <<pc, exitCode, failure>>
    /\ UNCHANGED <<argv, oss, szInFilePath, szOutFilePath, eFormat, iGpu,
                   cuStreamType, encodeCLIOptions, mainVars, encVars>>

ParseFormat ==
    /\ AtFlag(Opt_if)
    /\ IF i + 1 = argc
       THEN ThrowBadOption /\ i' = i + 1 /\ UNCHANGED eFormat
       ELSE LET it == FindFormat(argv[i + 1])
            IN  IF it = 0
                THEN ThrowBadOption /\ i' = i + 1 /\ UNCHANGED eFormat
                ELSE /\ eFormat' = aFormat[it]
                     /\ i' = i + 2
                     /\ UNCHANGED <<pc, exitCode, failure>>
    /\ UNCHANGED <<argv, oss, szInFilePath, szOutFilePath, nWidth, nHeight, iGpu,
                   cuStreamType, encodeCLIOptions, sFlag, mainVars, encVars>>

ParseGpu ==
    /\ AtFlag(Opt_gpu)
    /\ IF i + 1 = argc
       THEN ThrowBadOption /\ i' = i + 1 /\ UNCHANGED iGpu
       ELSE /\ iGpu' = Atoi(argv[i + 1])
            /\ i' = i + 2
            /\ UNCHANGED <<pc, exitCode, failure>>
    /\ UNCHANGED <<argv, oss, szInFilePath, szOutFilePath, nWidth, nHeight, eFormat,
                   cuStreamType, encodeCLIOptions, sFlag, mainVars, encVars>>

ParseCuStreamType ==
    /\ AtFlag(Opt_cuStreamType)
    /\ IF i + 1 = argc
       THEN ThrowBadOption /\ i' = i + 1 /\ UNCHANGED cuStreamType
       ELSE /\ cuStreamType' = Atoi(argv[i + 1])
            /\ i' = i + 2
            /\ UNCHANGED <<pc, exitCode, failure>>
    /\ UNCHANGED <<argv, oss, szInFilePath, szOutFilePath, nWidth, nHeight, eFormat,
                   iGpu, encodeCLIOptions, sFlag, mainVars, encVars>>

\* the flags ParseCommandLine tests for, in the order it tests them
ParserFlags == {Opt_h, Opt_i, Opt_o, Opt_s, Opt_if, Opt_gpu, Opt_cuStreamType}

\* "Regard as encoder parameter": no test above matched argv[i]
ParseEncoderParam ==
    /\ pc = "parse"
    /\ i < argc
    /\ \A f \in ParserFlags : ~StrIEq(argv[i], f)
    /\ IF Len(argv[i]) = 0 \/ argv[i][1] /= "-"
       THEN ThrowBadOption /\ UNCHANGED <<i, oss>>
       ELSE LET r == AppendValues(argv, i, OssAppend(oss, argv[i]))
            IN  /\ oss' = r.oss
                /\ i' = r.i + 1
                /\ UNCHANGED <<pc, exitCode, failure>>
    /\ UNCHANGED <<argv, szInFilePath, szOutFilePath, nWidth, nHeight, eFormat, iGpu,
                   cuStreamType, encodeCLIOptions, sFlag, mainVars, encVars>>

\* the loop ends: initParam = NvEncoderInitParam(oss.str().c_str()), whose
\* constructor may reject the options it is given by throwing
ParseFinish ==
    /\ pc = "parse"
    /\ i >= argc
    /\ \/ /\ encodeCLIOptions' = oss
          /\ pc' = "imread"
          /\ UNCHANGED <<exitCode, failure>>
       \/ /\ oss /= <<>>
          /\ ThrowBadOption
          /\ UNCHANGED encodeCLIOptions
    /\ UNCHANGED <<argv, i, oss, szInFilePath, szOutFilePath, nWidth, nHeight,
                   eFormat, iGpu, cuStreamType, sFlag, mainVars, encVars>>

ParseStep ==
    \/ ParseHelp
    \/ ParseInput
    \/ ParseOutput
    \/ ParseSize
    \/ ParseFormat
    \/ ParseGpu
    \/ ParseCuStreamType
    \/ ParseEncoderParam
    \/ ParseFinish

(***************************************************************************)
(* ShowEncoderCapability, reached from ShowHelpAndExit() on -h.            *)
(***************************************************************************)
\* ck(e): a failing CUDA driver call is logged as FATAL, which ends the
\* process with status 1
CkFailed ==
    /\ pc' = "exited"
    /\ exitCode' = 1
    /\ failure' = "cuda"

\* an exception leaves the function; main's handler is the only one
Throw(kind) ==
    /\ pc' = "catch"
    /\ failure' = kind
    /\ UNCHANGED exitCode

\* cuInit and cuDeviceGetCount of ShowEncoderCapability
ShowEncoderCapability ==
    /\ pc = "showCaps"
    /\ \/ /\ \E n \in 0..MaxGpus : nGpu' = n
          /\ iCap' = 0
          /\ pc' = "capsLoop"
          /\ UNCHANGED <<exitCode, failure>>
       \/ CkFailed /\ UNCHANGED <<nGpu, iCap>>
    /\ UNCHANGED <<parseVars, srcImgHost, srcImgDevice, cuContext, nCtxCreate,
                   fpOut, outTouched, outFile, encVars>>

\* one GPU of its loop: a context and an encoder of its own are created,
\* queried and destroyed
ShowCapabilityOfGpu ==
    /\ pc = "capsLoop"
    /\ iCap < nGpu
    /\ \/ iCap' = iCap + 1 /\ UNCHANGED <<pc, exitCode, failure>>
       \/ CkFailed /\ UNCHANGED iCap
       \/ Throw("nvenc") /\ UNCHANGED iCap
    /\ UNCHANGED <<parseVars, srcImgHost, srcImgDevice, nGpu, cuContext,
                   nCtxCreate, fpOut, outTouched, outFile, encVars>>

\* exit(0) of ShowHelpAndExit
HelpExit ==
    /\ pc = "capsLoop"
    /\ iCap >= nGpu
    /\ pc' = "exited"
    /\ exitCode' = 0
    /\ UNCHANGED <<parseVars, failure, mainVars, encVars>>

(***************************************************************************)
(* main, after ParseCommandLine.                                           *)
(***************************************************************************)
\* the images cv::imread may load
Images ==
    {[cols |-> 6, rows |-> 4, fmt |-> "BGR"], [cols |-> 2, rows |-> 4, fmt |-> "BGR"]}

\* cv::imread returns an empty Mat when the file cannot be read; then
\* nWidth = srcImgHost.cols, nHeight = srcImgHost.rows
Imread ==
    /\ pc = "imread"
    /\ \E img \in Images \cup {NoImage} :
          /\ szInFilePath = <<>> => img = NoImage
          /\ srcImgHost' = img
          /\ nWidth' = img.cols
          /\ nHeight' = img.rows
    /\ pc' = "upload"
    /\ UNCHANGED <<argv, i, oss, szInFilePath, szOutFilePath, eFormat, iGpu,
                   cuStreamType, encodeCLIOptions, sFlag, exitCode, failure,
                   srcImgDevice, nGpu, iCap, cuContext, nCtxCreate, fpOut,
                   outTouched, outFile, encVars>>

\* srcImgDevice.upload(srcImgHost)
Upload ==
    /\ pc = "upload"
    /\ \/ /\ srcImgDevice' = srcImgHost
          /\ pc' = "cvtColor"
          /\ UNCHANGED <<exitCode, failure>>
       \/ Throw("image") /\ UNCHANGED srcImgDevice
    /\ UNCHANGED <<parseVars, srcImgHost, nGpu, iCap, cuContext, nCtxCreate,
                   fpOut, outTouched, outFile, encVars>>

\* cv::cuda::cvtColor(srcImgDevice, srcImgDevice, COLOR_BGR2RGBA): the
\* conversion takes a three-channel image and throws on any other, the
\* empty one included
CvtColor ==
    /\ pc = "cvtColor"
    /\ \/ /\ srcImgDevice.fmt = "BGR"
          /\ srcImgDevice' = [srcImgDevice EXCEPT !.fmt = "RGBA"]
          /\ pc' = "download"
          /\ UNCHANGED <<exitCode, failure>>
       \/ Throw("image") /\ UNCHANGED srcImgDevice
    /\ UNCHANGED <<parseVars, srcImgHost, nGpu, iCap, cuContext, nCtxCreate,
                   fpOut, outTouched, outFile, encVars>>

\* srcImgDevice.download(tst)
Download ==
    /\ pc = "download"
    /\ \/ pc' = "validate" /\ UNCHANGED <<exitCode, failure>>
       \/ Throw("image")
    /\ UNCHANGED <<parseVars, mainVars, encVars>>

\* ValidateResolution(nWidth, nHeight) throws unless both are positive
ValidateResolution ==
    /\ pc = "validate"
    /\ IF nWidth <= 0 \/ nHeight <= 0
       THEN Throw("resolution")
       ELSE pc' = "cuInit" /\ UNCHANGED <<exitCode, failure>>
    /\ UNCHANGED <<parseVars, mainVars, encVars>>

\* ck(cuInit(0))
CuInit ==
    /\ pc = "cuInit"
    /\ \/ pc' = "deviceCount" /\ UNCHANGED <<exitCode, failure>>
       \/ CkFailed
    /\ UNCHANGED <<parseVars, mainVars, encVars>>

\* a faulty variant of GpuOrdinalOutOfRange: off by one at the upper end
GpuOrdinalOutOfRange_OffByOne(g, n) == g < 0 \/ g > n

\* iGpu < 0 || iGpu >= nGpu
GpuOrdinalOutOfRange(g, n) == g < 0 \/ g >= n

\* ck(cuDeviceGetCount(&nGpu)) and the range test of iGpu, which returns 1
DeviceGetCount ==
    /\ pc = "deviceCount"
    /\ \/ \E n \in 0..MaxGpus :
             /\ nGpu' = n
             /\ IF GpuOrdinalOutOfRange(iGpu, n)
                THEN /\ pc' = "exited"
                     /\ exitCode' = 1
                     /\ failure' = "gpuOrdinal"
                ELSE pc' = "deviceGet" /\ UNCHANGED <<exitCode, failure>>
       \/ CkFailed /\ UNCHANGED nGpu
    /\ UNCHANGED <<parseVars, srcImgHost, srcImgDevice, iCap, cuContext,
                   nCtxCreate, fpOut, outTouched, outFile, encVars>>

\* ck(cuDeviceGet(&cuDevice, iGpu)); ck(cuDeviceGetName(...))
DeviceGet ==
    /\ pc = "deviceGet"
    /\ \/ pc' = "ctxCreate" /\ UNCHANGED <<exitCode, failure>>
       \/ CkFailed
    /\ UNCHANGED <<parseVars, mainVars, encVars>>

\* ck(cuCtxCreate(&cuContext, 0, cuDevice))
CtxCreate ==
    /\ pc = "ctxCreate"
    /\ \/ /\ cuContext' = "created"
          /\ nCtxCreate' = nCtxCreate + 1
          /\ pc' = "openFile"
          /\ UNCHANGED <<exitCode, failure>>
       \/ CkFailed /\ UNCHANGED <<cuContext, nCtxCreate>>
    /\ UNCHANGED <<parseVars, srcImgHost, srcImgDevice, nGpu, iCap, fpOut,
                   outTouched, outFile, encVars>>

\* std::ofstream fpOut(szOutFilePath, out | binary): creates or truncates
\* the file; if (!fpOut) throw std::invalid_argument
OpenFile ==
    /\ pc = "openFile"
    /\ \/ /\ szOutFilePath /= <<>>
          /\ fpOut' = "open"
          /\ outTouched' = TRUE
          /\ outFile' = <<>>
          /\ pc' = "newEncoder"
          /\ UNCHANGED <<exitCode, failure>>
       \/ /\ fpOut' = "failed"
          /\ Throw("openFile")
          /\ UNCHANGED <<outTouched, outFile>>
    /\ UNCHANGED <<parseVars, srcImgHost, srcImgDevice, nGpu, iCap, cuContext,
                   nCtxCreate, encVars>>

\* the handler of main: the stack is unwound (pEnc's destructor releases the
\* session, fpOut's destructor closes the file), ex.what() is printed and
\* main returns 1
Catch ==
    /\ pc = "catch"
    /\ pEnc' = [pEnc EXCEPT !.state = IF @ = "none" THEN @ ELSE "released"]
    /\ fpOut' = IF fpOut = "open" THEN "closed" ELSE fpOut
    /\ exitCode' = 1
    /\ pc' = "exited"
    /\ UNCHANGED <<parseVars, failure, srcImgHost, srcImgDevice, nGpu, iCap,
                   cuContext, nCtxCreate, outTouched, outFile, pending, slot,
                   fi, vPacket, nFrame, emitted, calls, submittedImgs>>

\* fpOut.close() and return 0
CloseAndReturn ==
    /\ pc = "close"
    /\ fpOut' = "closed"
    /\ exitCode' = 0
    /\ pc' = "exited"
    /\ UNCHANGED <<parseVars, failure, srcImgHost, srcImgDevice, nGpu, iCap,
                   cuContext, nCtxCreate, outTouched, outFile, encVars>>

(***************************************************************************)
(* EncodeCuda.                                                             *)
(***************************************************************************)
\* int last_frame = 15*25
last_frame == 15 * 25

\* a faulty variant of EncodeCuda_eFormat: the format main parsed is used
EncodeCuda_eFormat_FromMain == eFormat

\* NV_ENC_BUFFER_FORMAT eFormat = NV_ENC_BUFFER_FORMAT_ABGR
EncodeCuda_eFormat == "ABGR"

\* the width and height main passes to EncodeCuda
EncodeCuda_nWidth == nWidth

EncodeCuda_nHeight == nHeight

\* new NvEncoderCuda(cuContext, nWidth, nHeight, eFormat)
NewEncoder ==
    /\ pc = "newEncoder"
    /\ \/ /\ pEnc' = [state |-> "constructed", w |-> EncodeCuda_nWidth,
                      h |-> EncodeCuda_nHeight, fmt |-> EncodeCuda_eFormat,
                      initFmt |-> "none", param |-> <<>>]
          /\ pc' = "initEncoder"
          /\ UNCHANGED <<exitCode, failure>>
       \/ Throw("nvenc") /\ UNCHANGED pEnc
    /\ UNCHANGED <<parseVars, mainVars, pending, slot, fi, vPacket, nFrame,
                   emitted, calls, submittedImgs>>

\* InitializeEncoder(pEnc, encodeCLIOptions, eFormat); then nFrame = 0, i = 0
InitializeEncoder ==
    /\ pc = "initEncoder"
    /\ \/ /\ pEnc' = [pEnc EXCEPT !.state = "created",
                                  !.initFmt = EncodeCuda_eFormat,
                                  !.param = encodeCLIOptions]
          /\ fi' = 0
          /\ nFrame' = 0
          /\ pc' = "loop"
          /\ UNCHANGED <<exitCode, failure>>
       \/ Throw("nvenc") /\ UNCHANGED <<pEnc, fi, nFrame>>
    /\ UNCHANGED <<parseVars, mainVars, pending, slot, vPacket, emitted, calls,
                   submittedImgs>>

\* a faulty variant of LoopContinues: the loop ends before the flush iteration
LoopContinues_NoFlush(k) == k < last_frame

\* a faulty variant of IsSubmitIteration: the last iteration submits as well
IsSubmitIteration_Always(k) == k <= last_frame

\* i <= last_frame
LoopContinues(k) == k <= last_frame

\* i < last_frame
IsSubmitIteration(k) == k < last_frame

\* a faulty variant of GetNextInputFrame: the copy into the buffer is skipped
GetNextInputFrame_NoCopy ==
    /\ pc = "loop"
    /\ fi < last_frame
    /\ slot' = "stale"
    /\ calls' = [calls EXCEPT !.get = @ + 1]
    /\ vPacket' = <<>>
    /\ pc' = "encode"
    /\ UNCHANGED <<parseVars, exitCode, failure, mainVars, pEnc, pending, fi,
                   nFrame, emitted, submittedImgs>>

\* pEnc->GetNextInputFrame(): the next input buffer of the ring, which
\* holds whatever was left in it
GetNextInputFrame ==
    /\ pc = "loop"
    /\ IsSubmitIteration(fi)
    /\ slot' = "stale"
    /\ calls' = [calls EXCEPT !.get = @ + 1]
    /\ vPacket' = <<>>
    /\ pc' = "copy"
    /\ UNCHANGED <<parseVars, exitCode, failure, mainVars, pEnc, pending, fi,
                   nFrame, emitted, submittedImgs>>

\* the content CopyToDeviceFrame stores in the input buffer
CopiedFrame == srcImgDevice

\* NvEncoderCuda::CopyToDeviceFrame(cuContext, srcIn.data, ...)
CopyToDeviceFrame ==
    /\ pc = "copy"
    /\ calls' = [calls EXCEPT !.copy = @ + 1]
    /\ \/ /\ slot' = CopiedFrame
          /\ pc' = "encode"
          /\ UNCHANGED <<exitCode, failure>>
       \/ Throw("nvenc") /\ UNCHANGED slot
    /\ UNCHANGED <<parseVars, mainVars, pEnc, pending, fi, vPacket, nFrame,
                   emitted, submittedImgs>>

\* the first n elements of s, and the rest
Take(s, n) == SubSeq(s, 1, n)

Drop(s, n) == SubSeq(s, n + 1, Len(s))

\* pEnc->EncodeFrame(vPacket); nFrame += vPacket.size().  The encoder
\* returns the packets of the oldest frames it holds, in submission order,
\* and holds back at most MaxDelay frames.
EncodeFrame ==
    /\ pc = "encode"
    /\ calls' = [calls EXCEPT !.encode = @ + 1]
    /\ submittedImgs' = submittedImgs \cup {slot}
    /\ \/ LET held == Append(pending, calls.encode + 1)
          IN  \E n \in 0..Len(held) :
                 /\ Len(held) - n <= MaxDelay
                 /\ vPacket' = Take(held, n)
                 /\ pending' = Drop(held, n)
                 /\ emitted' = emitted \o Take(held, n)
                 /\ nFrame' = nFrame + n
                 /\ pc' = "write"
                 /\ UNCHANGED <<exitCode, failure>>
       \/ Throw("nvenc") /\ UNCHANGED <<vPacket, pending, emitted, nFrame>>
    /\ UNCHANGED <<parseVars, mainVars, pEnc, slot, fi>>

\* pEnc->EndEncode(vPacket); nFrame += vPacket.size(): every frame still
\* held is returned
EndEncode ==
    /\ pc = "loop"
    /\ ~IsSubmitIteration(fi)
    /\ calls' = [calls EXCEPT !.flush = @ + 1]
    /\ \/ /\ vPacket' = pending
          /\ pending' = <<>>
          /\ emitted' = emitted \o pending
          /\ nFrame' = nFrame + Len(pending)
          /\ pc' = "write"
          /\ UNCHANGED <<exitCode, failure>>
       \/ Throw("nvenc") /\ UNCHANGED <<vPacket, pending, emitted, nFrame>>
    /\ UNCHANGED <<parseVars, mainVars, pEnc, slot, fi, submittedImgs>>

\* a faulty variant of FileAfterWrite: the packet is put in front
FileAfterWrite_InFront(f, packet) == <<packet>> \o f

\* fpOut.write(packet.data(), packet.size()) of the next packet of vPacket
FileAfterWrite(f, packet) == Append(f, packet)

WritePacket ==
    /\ pc = "write"
    /\ vPacket /= <<>>
    /\ outFile' = FileAfterWrite(outFile, Head(vPacket))
    /\ vPacket' = Tail(vPacket)
    /\ UNCHANGED <<parseVars, pc, exitCode, failure, srcImgHost, srcImgDevice,
                   nGpu, iCap, cuContext, nCtxCreate, fpOut, outTouched, pEnc,
                   pending, slot, fi, nFrame, emitted, calls, submittedImgs>>

\* the range-for ends; i++ and the test of the for loop
NextIteration ==
    /\ pc = "write"
    /\ vPacket = <<>>
    /\ fi' = fi + 1
    /\ pc' = IF LoopContinues(fi + 1) THEN "loop" ELSE "destroy"
    /\ UNCHANGED <<parseVars, exitCode, failure, mainVars, pEnc, pending, slot,
                   vPacket, nFrame, emitted, calls, submittedImgs>>

\* pEnc->DestroyEncoder(); EncodeCuda returns and pEnc goes out of scope
DestroyEncoder ==
    /\ pc = "destroy"
    /\ calls' = [calls EXCEPT !.destroy = @ + 1]
    /\ pEnc' = [pEnc EXCEPT !.state = "released"]
    /\ pc' = "close"
    /\ UNCHANGED <<parseVars, exitCode, failure, mainVars, pending, slot, fi,
                   vPacket, nFrame, emitted, submittedImgs>>

(***************************************************************************)
(* Specifications.                                                         *)
(***************************************************************************)
\* every command line of at most MaxArgs tokens
CmdLines == UNION {[1..n -> Tokens] : n \in 0..MaxArgs}

InitParse == \E a \in CmdLines : InitWith(a)

\* ParseCommandLine alone, over every command line of CmdLines
SpecParse == InitParse /\ [][ParseStep]_vars

\* the command lines of whole runs: the input and output paths, or neither,
\* or the input path alone, followed by one of these option groups
PathArgs == {<<>>, <<Opt_i, Tok_1>>, <<Opt_i, Tok_1, Opt_o, Tok_1>>}

OptionArgs ==
    {<<>>, <<Opt_h>>, <<Opt_i>>, <<Opt_o>>, <<Tok_1>>,
     <<Opt_s>>, <<Opt_s, Tok_1>>, <<Opt_s, Tok_2x4>>, <<Opt_s, Tok_2x4x>>,
     <<Opt_if>>, <<Opt_if, Tok_1>>, <<Opt_if, Tok_nv12>>,
     <<Opt_gpu>>, <<Opt_gpu, Tok_1>>,
     <<Opt_cuStreamType>>, <<Opt_cuStreamType, Tok_1>>,
     <<Tok_fps, Tok_1>>,
     <<Opt_s, Tok_2x4, Opt_if, Tok_nv12, Tok_fps, Tok_1>>}

RunCmdLines == {p \o o : p \in PathArgs, o \in OptionArgs}

Init == \E a \in RunCmdLines : InitWith(a)

Next ==
    \/ ParseHelp
    \/ ParseInput
    \/ ParseOutput
    \/ ParseSize
    \/ ParseFormat
    \/ ParseGpu
    \/ ParseCuStreamType
    \/ ParseEncoderParam
    \/ ParseFinish
    \/ ShowEncoderCapability
    \/ ShowCapabilityOfGpu
    \/ HelpExit
    \/ Imread
    \/ Upload
    \/ CvtColor
    \/ Download
    \/ ValidateResolution
    \/ CuInit
    \/ DeviceGetCount
    \/ DeviceGet
    \/ CtxCreate
    \/ OpenFile
    \/ NewEncoder
    \/ InitializeEncoder
    \/ GetNextInputFrame
    \/ CopyToDeviceFrame
    \/ EncodeFrame
    \/ EndEncode
    \/ WritePacket
    \/ NextIteration
    \/ DestroyEncoder
    \/ CloseAndReturn
    \/ Catch

Spec == Init /\ [][Next]_vars

(***************************************************************************)
(* Properties.                                                             *)
(***************************************************************************)
Range(s) == {s[k] : k \in 1..Len(s)}

IsPrefix(s, t) == Len(s) <= Len(t) /\ SubSeq(t, 1, Len(s)) = s

\* EncodeCuda has left its loop without an exception
LoopCompleted ==
    \/ pc \in {"destroy", "close"}
    \/ pc = "exited" /\ calls.destroy > 0

\* main has returned 0 after a whole run of EncodeCuda
RunCompleted == pc = "exited" /\ exitCode = 0 /\ calls.destroy > 0

C2_SubmissionsThenOneFlush ==
    /\ last_frame = 375
    /\ calls.flush <= 1
    /\ calls.flush >= 1 => calls.encode = last_frame
    /\ calls.encode <= last_frame
    /\ calls.destroy >= 1 => calls.flush = 1
    /\ LoopCompleted => calls.encode = last_frame /\ calls.flush = 1
    /\ submittedImgs \subseteq
          {[cols |-> srcImgHost.cols, rows |-> srcImgHost.rows, fmt |-> "RGBA"]}
    /\ pEnc.state /= "none" => srcImgDevice.fmt = "RGBA"

C2_Witness ==
    /\ RunCompleted
    /\ calls.encode = 375
    /\ calls.flush = 1
    /\ calls.destroy = 1
    /\ Cardinality(submittedImgs) = 1

SampleFlags ==
    {<<"-", "i">>, <<"-", "o">>, <<"-", "s">>, <<"-", "i", "f">>,
     <<"-", "g", "p", "u">>,
     <<"-", "c", "u", "s", "t", "r", "e", "a", "m", "t", "y", "p", "e">>}

LowerCase(t) == [k \in 1..Len(t) |-> ToLower(t[k])]

IsSampleFlag(t) == LowerCase(t) \in SampleFlags

\* t has the form WxH: decimal digits, an x, decimal digits
IsWxH(t) ==
    \E k \in 2..(Len(t) - 1) :
        /\ t[k] = "x"
        /\ \A j \in 1..Len(t) : j /= k => IsDigit(t[j])

\* some -s of command line a, read as a flag, has a value not of the form WxH
RECURSIVE HasMalformedSize(_)
HasMalformedSize(a) ==
    IF Len(a) < 2 THEN FALSE
    ELSE IF IsSampleFlag(Head(a))
         THEN \/ LowerCase(Head(a)) = Opt_s /\ ~IsWxH(a[2])
              \/ HasMalformedSize(SubSeq(a, 3, Len(a)))
         ELSE HasMalformedSize(Tail(a))

\* every failure met so far has ended, or is about to end, the run with a
\* non-zero exit status
C4_FailureInv ==
    /\ failure /= "none" => pc \in {"catch", "exited"}
    /\ failure /= "none" /\ pc = "exited" => exitCode /= 0 /\ exitCode /= -1
    /\ pc = "catch" => failure /= "none"

\* after a failure no encoder call is made and no packet is written
C4_FailureStep ==
    failure /= "none" =>
        /\ calls' = calls
        /\ outFile' = outFile
        /\ failure' = failure
        /\ pc' = "exited"

C4_NoRecovery == [](C4_FailureInv) /\ [][C4_FailureStep]_vars

\* C4 (as claimed): every argument error, a -s value not of the form WxH
\* among them, an out-of-range GPU ordinal, an output file that cannot be
\* opened and every failing library call end the program with a non-zero
\* exit status.
C4_ErrorsTerminateNonZero ==
    /\ C4_FailureInv
    /\ HasMalformedSize(argv) /\ pc = "exited" /\ Opt_h \notin Range(argv)
          => exitCode /= 0

\* C5 (as claimed): at exit every handle the run acquired has been released,
\* and each was acquired at most once.
C5_AllHandlesReleasedAtExit ==
    /\ nCtxCreate <= 1
    /\ pc = "exited" =>
          /\ cuContext /= "created"
          /\ pEnc.state \notin {"constructed", "created"}
          /\ fpOut /= "open"

\* C6 (as claimed): with a well-formed -s WxH, the width and height given to
\* ValidateResolution and to the encoder are W and H.
C6_SizeFlagOverrides ==
    sFlag /= <<>> /\ ~HasMalformedSize(argv) =>
        /\ pc = "validate" => nWidth = sFlag[1] /\ nHeight = sFlag[2]
        /\ pEnc.state /= "none" => pEnc.w = sFlag[1] /\ pEnc.h = sFlag[2]

IsSampleFlagExact(t) ==
    t \in {Opt_i, Opt_o, Opt_s, Opt_if, Opt_gpu, Opt_cuStreamType}

\* the tokens of a that are neither a sample flag (in any case when
\* anyCase, as listed otherwise) nor the value of one, each followed by one
\* space
RECURSIVE Forwarded(_, _)
Forwarded(a, anyCase) ==
    IF a = <<>> THEN <<>>
    ELSE IF (IF anyCase THEN IsSampleFlag(Head(a)) ELSE IsSampleFlagExact(Head(a)))
         THEN Forwarded(SubSeq(a, 3, Len(a)), anyCase)
         ELSE Head(a) \o <<" ">> \o Forwarded(Tail(a), anyCase)

\* C8 (as claimed): for every command line that parses without error, the
\* string given to NvEncoderInitParam is the tokens that are not one of
\* -i, -o, -s, -if, -gpu, -cuStreamType nor the value of one, in
\* command-line order, each followed by one space.
C8_ForwardedExceptListedFlags ==
    pc = "imread" => encodeCLIOptions = Forwarded(argv, FALSE)

\* C8 (amended): the same, the sample's flags being recognised without
\* regard to case (_stricmp): -I, -IF, -GPU ... and their values are not
\* forwarded either.
C8_OptionsForwardedVerbatim ==
    pc = "imread" => encodeCLIOptions = Forwarded(argv, TRUE)

\* -I takes -fps as its value, the second -fps is forwarded
C8_Witness ==
    /\ pc = "imread"
    /\ argv = <<Tok_I, Tok_fps, Tok_fps>>
    /\ encodeCLIOptions = <<"-", "f", "p", "s", " ">>

\* C9: a submitting iteration makes one GetNextInputFrame, one copy, one
\* EncodeFrame, in this order, then writes every packet returned; the
\* packets of submission k are written before the slot of submission k+1 is
\* acquired, and the flush iteration acquires no slot and copies nothing.
C9_IterationOrder ==
    /\ calls.encode <= calls.copy
    /\ calls.copy <= calls.get
    /\ calls.get <= calls.encode + 1
    /\ calls.get <= last_frame
    /\ pc = "loop" => /\ calls.get = fi /\ calls.copy = fi /\ calls.encode = fi
                      /\ outFile = emitted
    /\ pc = "copy" => /\ calls.get = fi + 1 /\ calls.copy = fi /\ calls.encode = fi
                      /\ outFile = emitted
    /\ pc = "encode" => /\ calls.get = fi + 1 /\ calls.copy = fi + 1
                        /\ calls.encode = fi
                        /\ slot = srcImgDevice
    /\ pc = "write" /\ calls.flush = 0 =>
          calls.get = fi + 1 /\ calls.copy = fi + 1 /\ calls.encode = fi + 1
    /\ calls.flush > 0 => calls.get = last_frame /\ calls.copy = last_frame
    /\ LoopCompleted => calls.get = last_frame /\ calls.copy = last_frame

\* the slot of the fourth submission is acquired with the packets of the
\* first three written
C9_Witness ==
    /\ pc = "copy"
    /\ fi = 3
    /\ calls.get = 4
    /\ outFile = <<1, 2, 3>>

\* the run ended before the output file is opened
EndedEarly ==
    \/ failure \in {"argument", "image", "resolution", "gpuOrdinal", "cuda"}
    \/ pc \in {"showCaps", "capsLoop"}
    \/ pc = "exited" /\ cuContext = "null"

\* C10: a run that ends by an argument error, -h, an image failure, a
\* rejected resolution or an out-of-range GPU ordinal has not opened,
\* created or truncated the output path; the file is opened only after all
\* of these steps and cuCtxCreate have succeeded.
C10_OutputUntouchedByEarlyFailure ==
    /\ EndedEarly => fpOut = "unopened" /\ ~outTouched /\ outFile = <<>>
    /\ fpOut /= "unopened" =>
          /\ cuContext = "created"
          /\ i >= argc
          /\ srcImgDevice.fmt = "RGBA"
          /\ nWidth > 0 /\ nHeight > 0
          /\ 0 <= iGpu /\ iGpu < nGpu
    /\ outTouched => fpOut /= "unopened"

\* -o was given and the GPU ordinal was out of range
C10_Witness ==
    /\ pc = "exited"
    /\ failure = "gpuOrdinal"
    /\ szOutFilePath /= <<>>
    /\ srcImgDevice.fmt = "RGBA"
    /\ fpOut = "unopened"

====
